---------------------------- MODULE Spec2Model ----------------------------
(***************************************************************************)
(* A model of the OpenAPI importer (class OpenAPIImporter) of              *)
(* mcp-api-consumer: the two entry points importFromFile / importFromUrl,  *)
(* the document parser, the structural validator and the specification     *)
(* extractor.                                                              *)
(*                                                                         *)
(* JavaScript values are tagged records.  A document as written (the text  *)
(* of a file, the body of a response) is a tree whose objects list their   *)
(* keys in the order of the text; JSON.parse / yaml.parse build JavaScript *)
(* objects from it, whose own keys enumerate in the order of the language: *)
(* canonical array indices ascending, then the other keys in insertion     *)
(* order.                                                                  *)
(***************************************************************************)
EXTENDS Integers, Sequences, FiniteSets, TLC

VARIABLES
    pc,        \* where the current call stands
    kind,      \* "file" | "url" | "none": the entry point called
    source,    \* the filePath / url argument, a sequence of characters
    written,   \* the tree as written in the file / decoded from the body
    content,   \* what fs.readFile resolved with
    format,    \* what detectFormat returned
    document,  \* the JavaScript value handed to validateSpec
    thrown,    \* the exception travelling to the catch clause
    outcome,   \* what the promise settled with
    steps,     \* the steps this call has run, in order
    ios,       \* the reads / requests this call has issued, in order
    other,     \* the locals of another call of the importer, suspended
    toolRequest,   \* the params of the last call_tool request handled
    toolResponse,  \* what the call_tool handler returned for it
    reqPc,         \* where the current use of the request helpers stands
    reqConfig,     \* the RequestConfig given to createRequest
    axiosConfig,   \* the AxiosRequestConfig that createRequest returned
    transport,     \* the requests that reached axios.request, in order
    settled,       \* what axios.request settled with
    reqOutcome     \* what the promise of executeRequest settled with

serverVars == <<toolRequest, toolResponse>>

requestVars ==
    <<reqPc, reqConfig, axiosConfig, transport, settled, reqOutcome>>

vars == <<pc, kind, source, written, content, format, document, thrown,
          outcome, steps, ios, other, serverVars, requestVars>>

-----------------------------------------------------------------------------
(* Bounds of the model *)

\* path keys of a generated paths object
MaxPaths == 2
\* keys of a generated path item
MaxOps == 2
\* keys of a generated responses object
MaxResponses == 2
\* entries of a generated parameters array
MaxParameters == 2
\* keys of a generated content object
MaxMediaTypes == 2

-----------------------------------------------------------------------------
(* JavaScript values *)

Undef == [t |-> "undefined"]
Null == [t |-> "null"]
Str(s) == [t |-> "string", s |-> s]
Bool(b) == [t |-> "boolean", b |-> b]
Num(n) == [t |-> "number", n |-> n]
Arr(items) == [t |-> "array", items |-> items]
\* keys: the own keys in enumeration order; val: key -> value
Obj(keys, val) == [t |-> "object", keys |-> keys, val |-> val]
EmptyObj == Obj(<<>>, [k \in {} |-> Undef])

Range(s) == {s[i] : i \in DOMAIN s}

\* ToBoolean: undefined, null, false, "" and 0 are falsy
Truthy(v) ==
    /\ v.t \notin {"undefined", "null"}
    /\ (v.t = "string" => v.s # "")
    /\ (v.t = "boolean" => v.b)
    /\ (v.t = "number" => v.n # 0)

\* x || y
OrElse(x, y) == IF Truthy(x) THEN x ELSE y

\* v[k] for v neither null nor undefined (those throw a TypeError, which the
\* callers model): a missing property, and any property of a primitive that
\* the code reads, is undefined
Get(v, k) ==
    IF v.t = "object" /\ k \in Range(v.keys) THEN v.val[k] ELSE Undef

Nullish(v) == v.t \in {"undefined", "null"}

\* the canonical array indices among the keys of the model, with their value
ArrayIndexValue ==
    [k \in {"1", "200", "404"} |->
        CASE k = "1" -> 1 [] k = "200" -> 200 [] k = "404" -> 404]

IsArrayIndex(k) == k \in DOMAIN ArrayIndexValue

RECURSIVE SortedIndices(_)
SortedIndices(S) ==
    IF S = {} THEN <<>>
    ELSE LET m == CHOOSE k \in S :
                    \A o \in S : ArrayIndexValue[k] <= ArrayIndexValue[o]
         IN <<m>> \o SortedIndices(S \ {m})

NotArrayIndex(k) == ~IsArrayIndex(k)

\* OrdinaryOwnPropertyKeys of an object whose properties were created in the
\* order inserted: the array indices ascending, then the rest as created
OwnPropertyKeys(inserted) ==
    SortedIndices({k \in Range(inserted) : IsArrayIndex(k)})
        \o SelectSeq(inserted, NotArrayIndex)

\* the JavaScript value JSON.parse / yaml.parse build from a tree as written
RECURSIVE Materialize(_)
Materialize(tree) ==
    CASE tree.t = "object" ->
            Obj(OwnPropertyKeys(tree.keys),
                [k \in DOMAIN tree.val |-> Materialize(tree.val[k])])
      [] tree.t = "array" ->
            Arr([i \in DOMAIN tree.items |-> Materialize(tree.items[i])])
      [] OTHER -> tree

\* Object.entries(v), as the sequence of its keys (the values are Get(v, k)).
\* A boolean has no own enumerable property; the model hands no string, array,
\* null or undefined to it
ObjectKeys(v) == IF v.t = "object" THEN v.keys ELSE <<>>

-----------------------------------------------------------------------------
(* Errors *)

\* a message: a fixed text followed by the source the template interpolates
Message(text, arg) == [text |-> text, arg |-> arg]

JSError(class, message, cause) ==
    [t |-> "error", class |-> class, message |-> message, cause |-> cause]

\* new OpenAPIImportError(message, cause)
OpenAPIImportError(message, cause) ==
    JSError("OpenAPIImportError", message, cause)

\* new ValidationError(message, errors): super(message) passes no cause
ValidationError(message, errors) ==
    [t |-> "error", class |-> "ValidationError", message |-> message,
     cause |-> Undef, errors |-> errors]

\* the error the engine throws on a property read of null / undefined, or on
\* a call of something that is no function
TypeError == JSError("TypeError", Message("TypeError", <<>>), Undef)

\* error instanceof OpenAPIImportError (ValidationError extends it)
InstanceOfOpenAPIImportError(e) ==
    e.class \in {"OpenAPIImportError", "ValidationError"}

InstanceOfValidationError(e) == e.class = "ValidationError"

\* the result of a call that threw
Throw(e) == [t |-> "throw", err |-> e]
IsThrow(r) == r.t = "throw"

\* of the results of a loop without side effects, the throw that comes first
\* in evaluation order
HasThrow(rs) == \E i \in DOMAIN rs : IsThrow(rs[i])
FirstThrow(rs) ==
    rs[CHOOSE i \in DOMAIN rs :
          IsThrow(rs[i]) /\ \A j \in DOMAIN rs : IsThrow(rs[j]) => i <= j]

RECURSIVE Flatten(_)
Flatten(ss) == IF ss = <<>> THEN <<>> ELSE Head(ss) \o Flatten(Tail(ss))

-----------------------------------------------------------------------------
(* The importer's synchronous steps *)

ToLowerCaseChar ==
    [c \in {"A", "J", "L", "M", "N", "O", "S", "Y"} |->
        CASE c = "A" -> "a" [] c = "J" -> "j" [] c = "L" -> "l"
          [] c = "M" -> "m" [] c = "N" -> "n" [] c = "O" -> "o"
          [] c = "S" -> "s" [] c = "Y" -> "y"]

\* s.toLowerCase(), s a sequence of characters
toLowerCase(s) ==
    [i \in DOMAIN s |->
        IF s[i] \in DOMAIN ToLowerCaseChar THEN ToLowerCaseChar[s[i]] ELSE s[i]]

\* s.endsWith(suffix)
endsWith(s, suffix) ==
    /\ Len(suffix) <= Len(s)
    /\ SubSeq(s, Len(s) - Len(suffix) + 1, Len(s)) = suffix

\* a variant of detectFormat that compares the path as given
detectFormatCaseSensitive(filePath) ==
    IF endsWith(filePath, <<".", "y", "a", "m", "l">>)
          \/ endsWith(filePath, <<".", "y", "m", "l">>)
    THEN "yaml" ELSE "json"

detectFormat(filePath) ==
    LET ext == toLowerCase(filePath)
    IN IF endsWith(ext, <<".", "y", "a", "m", "l">>)
             \/ endsWith(ext, <<".", "y", "m", "l">>)
       THEN "yaml" ELSE "json"

\* What a text is: JSON (which a YAML parser reads too), YAML that is no
\* JSON, or neither.  text.tree is the tree as written.
\* JSON.parse(text): throws a SyntaxError on anything but JSON
JSONParse(text) ==
    IF text.syntax = "json" THEN Materialize(text.tree)
    ELSE Throw(JSError("SyntaxError", Message("Unexpected token", <<>>), Undef))

\* yaml.parse(text): throws a YAMLParseError on what is no YAML
YAMLParse(text) ==
    IF text.syntax \in {"json", "yaml"} THEN Materialize(text.tree)
    ELSE Throw(JSError("YAMLParseError", Message("Bad YAML", <<>>), Undef))

\* catch (error) { throw new OpenAPIImportError(...) } of parseDocument
caughtParseError(parsed) ==
    IF IsThrow(parsed)
    THEN Throw(OpenAPIImportError(Message("Failed to parse document", <<>>),
                                  parsed.err))
    ELSE parsed

\* a variant of parseDocument that lets the parser's exception escape
parseDocumentUncaught(text, fmt) ==
    IF fmt = "yaml" THEN YAMLParse(text) ELSE JSONParse(text)

parseDocument(text, fmt) ==
    caughtParseError(IF fmt = "yaml" THEN YAMLParse(text) ELSE JSONParse(text))

MissingField(cond, field) == IF cond THEN <<field>> ELSE <<>>

\* a variant of validationErrors that stops at the first missing field
validationErrorsFirstOnly(doc) ==
    IF ~Truthy(Get(doc, "openapi")) THEN <<"openapi">>
    ELSE IF ~Truthy(Get(doc, "info")) THEN <<"info">>
    ELSE IF ~Truthy(Get(Get(doc, "info"), "title")) THEN <<"info.title">>
    ELSE IF ~Truthy(Get(Get(doc, "info"), "version")) THEN <<"info.version">>
    ELSE MissingField(~Truthy(Get(doc, "paths")), "paths")

\* a variant of validationErrors that reports info as a whole
validationErrorsGenericInfo(doc) ==
    MissingField(~Truthy(Get(doc, "openapi")), "openapi")
    \o MissingField(~Truthy(Get(doc, "info"))
                      \/ ~Truthy(Get(Get(doc, "info"), "title"))
                      \/ ~Truthy(Get(Get(doc, "info"), "version")), "info")
    \o MissingField(~Truthy(Get(doc, "paths")), "paths")

\* a variant of validationErrors that asks openapi to be a string
validationErrorsTypedVersion(doc) ==
    MissingField(Get(doc, "openapi").t # "string"
                   \/ ~Truthy(Get(doc, "openapi")), "openapi")
    \o (IF ~Truthy(Get(doc, "info"))
        THEN <<"info">>
        ELSE MissingField(~Truthy(Get(Get(doc, "info"), "title")), "info.title")
             \o MissingField(~Truthy(Get(Get(doc, "info"), "version")),
                             "info.version"))
    \o MissingField(~Truthy(Get(doc, "paths")), "paths")

\* the messages validateSpec collects for a document that is neither null
\* nor undefined; each names its field ("Missing required field: <field>")
validationErrors(doc) ==
    MissingField(~Truthy(Get(doc, "openapi")), "openapi")
    \o (IF ~Truthy(Get(doc, "info"))
        THEN <<"info">>
        ELSE MissingField(~Truthy(Get(Get(doc, "info"), "title")), "info.title")
             \o MissingField(~Truthy(Get(Get(doc, "info"), "version")),
                             "info.version"))
    \o MissingField(~Truthy(Get(doc, "paths")), "paths")

\* a variant of validateSpec that reports every field of a null or undefined
\* document as missing
validateSpecGuardingNull(doc) ==
    IF Nullish(doc)
    THEN Throw(ValidationError(
             Message("OpenAPI specification validation failed", <<>>),
             <<"openapi", "info", "paths">>))
    ELSE IF Len(validationErrors(doc)) > 0
         THEN Throw(ValidationError(
                  Message("OpenAPI specification validation failed", <<>>),
                  validationErrors(doc)))
         ELSE Undef

\* a variant of validateSpec that takes what is no object for a text still to
\* be parsed
validateSpecObjectsOnly(doc) ==
    IF Nullish(doc) THEN Throw(TypeError)
    ELSE IF doc.t # "object"
         THEN Throw(OpenAPIImportError(Message("Failed to parse document", <<>>),
                                       Undef))
         ELSE IF Len(validationErrors(doc)) > 0
              THEN Throw(ValidationError(
                       Message("OpenAPI specification validation failed", <<>>),
                       validationErrors(doc)))
              ELSE Undef

\* validateSpec(document): undefined when it returns
validateSpec(doc) ==
    IF Nullish(doc) THEN Throw(TypeError)
    ELSE IF Len(validationErrors(doc)) > 0
         THEN Throw(ValidationError(
                  Message("OpenAPI specification validation failed", <<>>),
                  validationErrors(doc)))
         ELSE Undef

\* a variant of extractInfo that leaves the description out
extractInfoWithoutDescription(info) ==
    IF Nullish(info) THEN Throw(TypeError)
    ELSE [t |-> "APIInfo", title |-> Get(info, "title"),
          version |-> Get(info, "version"),
          description |-> Undef]

extractInfo(info) ==
    IF Nullish(info) THEN Throw(TypeError)
    ELSE [t |-> "APIInfo", title |-> Get(info, "title"),
          version |-> Get(info, "version"),
          description |-> Get(info, "description")]

\* what a loop that builds an array evaluates to, from the results of its
\* rounds in order: the first throw, or else the array of the results
arrayOf(rs) == IF HasThrow(rs) THEN FirstThrow(rs) ELSE Arr(rs)

\* { mimeType, schema: mediaTypeObj.schema }: a null media type object throws
\* on the read of its schema
extractMediaType(mimeType, mediaTypeObj) ==
    IF Nullish(mediaTypeObj) THEN Throw(TypeError)
    ELSE [t |-> "MediaType", mimeType |-> mimeType,
          schema |-> Get(mediaTypeObj, "schema")]

\* the loop over Object.entries(contentMap): one MediaType per key
extractContent(contentMap) ==
    [i \in DOMAIN ObjectKeys(contentMap) |->
        extractMediaType(ObjectKeys(contentMap)[i],
                         Get(contentMap, ObjectKeys(contentMap)[i]))]

\* a variant of extractParameter that copies required and schema as they are
extractParameterWithoutDefaults(param) ==
    IF Nullish(param) THEN Throw(TypeError)
    ELSE [t |-> "Parameter",
          name |-> Get(param, "name"),
          in |-> Get(param, "in"),
          required |-> Get(param, "required"),
          schema |-> Get(param, "schema"),
          description |-> Get(param, "description")]

\* the callback of parameters.map
extractParameter(param) ==
    IF Nullish(param) THEN Throw(TypeError)
    ELSE [t |-> "Parameter",
          name |-> Get(param, "name"),
          in |-> Get(param, "in"),
          required |-> OrElse(Get(param, "required"), Bool(FALSE)),
          schema |-> OrElse(Get(param, "schema"),
                            Obj(<<"type">>, [k \in {"type"} |-> Str("string")])),
          description |-> Get(param, "description")]

\* parameters.map(...): what is no array has no map
extractParameters(parameters) ==
    IF parameters.t # "array" THEN Throw(TypeError)
    ELSE arrayOf([i \in DOMAIN parameters.items |->
                     extractParameter(parameters.items[i])])

\* a variant of requestBodyOf that leaves an empty content out
requestBodyOfOptionalContent(requestBody, media) ==
    IF HasThrow(media) THEN FirstThrow(media)
    ELSE [t |-> "RequestBody",
          required |-> OrElse(Get(requestBody, "required"), Bool(FALSE)),
          content |-> IF Len(media) > 0 THEN Arr(media) ELSE Undef]

\* return { required, content }, content the result of the loop
requestBodyOf(requestBody, media) ==
    IF HasThrow(media) THEN FirstThrow(media)
    ELSE [t |-> "RequestBody",
          required |-> OrElse(Get(requestBody, "required"), Bool(FALSE)),
          content |-> Arr(media)]

extractRequestBody(requestBody) ==
    IF ~Truthy(requestBody) THEN Undef
    ELSE requestBodyOf(requestBody,
                       extractContent(OrElse(Get(requestBody, "content"),
                                             EmptyObj)))

\* a variant of responseOf that keeps an empty content list
responseOfEmptyContentList(statusCode, response, media) ==
    IF HasThrow(media) THEN FirstThrow(media)
    ELSE [t |-> "ResponseSchema", statusCode |-> statusCode,
          description |-> OrElse(Get(response, "description"), Str("")),
          content |-> Arr(media)]

\* result.push({ statusCode, description, content }), content the result of
\* the inner loop
responseOf(statusCode, response, media) ==
    IF HasThrow(media) THEN FirstThrow(media)
    ELSE [t |-> "ResponseSchema", statusCode |-> statusCode,
          description |-> OrElse(Get(response, "description"), Str("")),
          content |-> IF Len(media) > 0 THEN Arr(media) ELSE Undef]

\* the body of the loop of extractResponses: the ResponseSchema of one entry
extractResponse(statusCode, response) ==
    IF Nullish(response) THEN Throw(TypeError)
    ELSE responseOf(statusCode, response,
                    IF Truthy(Get(response, "content"))
                    THEN extractContent(Get(response, "content"))
                    ELSE <<>>)

extractResponses(responses) ==
    arrayOf([i \in DOMAIN ObjectKeys(responses) |->
                extractResponse(ObjectKeys(responses)[i],
                                Get(responses, ObjectKeys(responses)[i]))])

\* the literal extractEndpoint returns, parts the results of its three calls
endpointOf(path, method, operation, parts) ==
    IF HasThrow(parts) THEN FirstThrow(parts)
    ELSE [t |-> "Endpoint", path |-> path, method |-> method,
          operationId |-> Get(operation, "operationId"),
          summary |-> Get(operation, "summary"),
          parameters |-> parts[1].items,
          requestBody |-> parts[2],
          responses |-> parts[3].items]

extractEndpoint(path, method, operation) ==
    endpointOf(path, method, operation,
               <<extractParameters(OrElse(Get(operation, "parameters"),
                                          Arr(<<>>))),
                 extractRequestBody(Get(operation, "requestBody")),
                 extractResponses(OrElse(Get(operation, "responses"),
                                         EmptyObj))>>)

\* a variant of methods in which a method comes twice
methodsWithRepetition ==
    <<"GET", "POST", "PUT", "DELETE", "PATCH", "HEAD", "OPTIONS", "GET">>

methods == <<"GET", "POST", "PUT", "DELETE", "PATCH", "HEAD", "OPTIONS">>

\* method.toLowerCase()
methodToLowerCase ==
    [m \in {"GET", "POST", "PUT", "DELETE", "PATCH", "HEAD", "OPTIONS"} |->
        CASE m = "GET" -> "get" [] m = "POST" -> "post" [] m = "PUT" -> "put"
          [] m = "DELETE" -> "delete" [] m = "PATCH" -> "patch"
          [] m = "HEAD" -> "head" [] m = "OPTIONS" -> "options"]

\* a variant of operationPresent that asks only whether the property exists
operationPresentByKey(pathItem, method) ==
    pathItem.t = "object" /\ methodToLowerCase[method] \in Range(pathItem.keys)

\* if (operation), for a path item that is neither null nor undefined
operationPresent(pathItem, method) ==
    Truthy(Get(pathItem, methodToLowerCase[method]))

\* the methods of the inner loop that pass if (operation), in its order
presentMethods(pathItem) ==
    SelectSeq(methods, LAMBDA m : operationPresent(pathItem, m))

\* a variant of extractPathItem that passes over a null path item
extractPathItemSkippingNull(path, pathItem) ==
    IF Nullish(pathItem) THEN Arr(<<>>)
    ELSE arrayOf([i \in DOMAIN presentMethods(pathItem) |->
                     extractEndpoint(path, presentMethods(pathItem)[i],
                         Get(pathItem,
                             methodToLowerCase[presentMethods(pathItem)[i]]))])

\* the inner loop of extractEndpoints: the endpoints of one path item; the
\* read of a property of a null path item throws
extractPathItem(path, pathItem) ==
    IF Nullish(pathItem) THEN Throw(TypeError)
    ELSE arrayOf([i \in DOMAIN presentMethods(pathItem) |->
                     extractEndpoint(path, presentMethods(pathItem)[i],
                         Get(pathItem,
                             methodToLowerCase[presentMethods(pathItem)[i]]))])

\* the paths the outer loop of extractEndpoints walks, in its order
pathEntries(doc) == ObjectKeys(OrElse(Get(doc, "paths"), EmptyObj))

\* the endpoints pushed, perPath the results of the rounds of the outer loop
endpointsOf(perPath) ==
    IF HasThrow(perPath) THEN FirstThrow(perPath)
    ELSE Arr(Flatten([i \in DOMAIN perPath |-> perPath[i].items]))

extractEndpoints(doc) ==
    endpointsOf([i \in DOMAIN pathEntries(doc) |->
                    extractPathItem(pathEntries(doc)[i],
                                    Get(Get(doc, "paths"), pathEntries(doc)[i]))])

\* a variant of extractComponents that builds its result for whatever it is
\* given
extractComponentsAlways(components) ==
    [t |-> "Components", schemas |-> Get(components, "schemas"),
     parameters |-> Get(components, "parameters"),
     responses |-> Get(components, "responses")]

extractComponents(components) ==
    IF ~Truthy(components) THEN Undef
    ELSE [t |-> "Components", schemas |-> Get(components, "schemas"),
          parameters |-> Get(components, "parameters"),
          responses |-> Get(components, "responses")]

\* a variant of specificationOf whose raw is the document without the
\* components that the specification carries already
specificationOfTrimmedRaw(doc, parts) ==
    IF HasThrow(parts) THEN FirstThrow(parts)
    ELSE [t |-> "OpenAPISpecification", info |-> parts[1],
          endpoints |-> parts[2].items,
          components |-> extractComponents(Get(doc, "components")),
          raw |-> Obj(SelectSeq(doc.keys, LAMBDA k : k # "components"),
                      [k \in Range(doc.keys) \ {"components"} |-> doc.val[k]])]

\* the literal extractSpecification returns, parts the results of extractInfo
\* and extractEndpoints
specificationOf(doc, parts) ==
    IF HasThrow(parts) THEN FirstThrow(parts)
    ELSE [t |-> "OpenAPISpecification", info |-> parts[1],
          endpoints |-> parts[2].items,
          components |-> extractComponents(Get(doc, "components")),
          raw |-> doc]

extractSpecification(doc) ==
    specificationOf(doc, <<extractInfo(Get(doc, "info")), extractEndpoints(doc)>>)

-----------------------------------------------------------------------------
(* The documents of the model, as written *)

Absent == [t |-> "absent"]

\* the object written with the given <<key, value>> pairs in that order, the
\* pairs whose value is Absent left out
MkObj(pairs) ==
    LET present == SelectSeq(pairs, LAMBDA p : p[2] # Absent)
    IN Obj([i \in DOMAIN present |-> present[i][1]],
           [k \in {present[i][1] : i \in DOMAIN present} |->
               (CHOOSE q \in Range(present) : q[1] = k)[2]])

\* the sequences of at most n distinct elements of S
RECURSIVE DistinctSeqs(_, _)
DistinctSeqs(S, n) ==
    IF n = 0 THEN {<<>>}
    ELSE LET shorter == DistinctSeqs(S, n - 1)
         IN shorter
              \cup UNION {{Append(q, x) : x \in S \ Range(q)} : q \in shorter}

\* the objects written with the keys of one of keySeqs and values of Vals
ObjectsOver(keySeqs, Vals) ==
    UNION {{Obj(ks, val) : val \in [Range(ks) -> Vals]} : ks \in keySeqs}

SchemaTree == MkObj(<<<<"type", Str("object")>>>>)

\* the values of a key of a content object
MediaTypeTrees == {Null, EmptyObj, MkObj(<<<<"schema", SchemaTree>>>>)}

MimeTypes == {"application/json", "application/xml", "text/plain"}

ContentTrees ==
    ObjectsOver(DistinctSeqs(MimeTypes, MaxMediaTypes), MediaTypeTrees)

ResponseTrees ==
    {Null,
     EmptyObj,
     MkObj(<<<<"description", Str("OK")>>>>),
     MkObj(<<<<"description", Str("OK")>>,
             <<"content", MkObj(<<<<"application/json",
                                    MkObj(<<<<"schema", SchemaTree>>>>)>>>>)>>>>),
     MkObj(<<<<"description", Str("OK")>>, <<"content", EmptyObj>>>>),
     MkObj(<<<<"description", Null>>, <<"content", Null>>>>),
     MkObj(<<<<"content",
               MkObj(<<<<"text/plain", EmptyObj>>,
                       <<"application/json",
                         MkObj(<<<<"schema", SchemaTree>>>>)>>>>)>>>>)}

\* the entries of a parameters array: complete, minimal, with required given
\* as false, with values of other types than the interface Parameter states,
\* with null values, without any field, and null
ParameterTrees ==
    {MkObj(<<<<"name", Str("id")>>, <<"in", Str("path")>>,
             <<"required", Bool(TRUE)>>, <<"schema", SchemaTree>>,
             <<"description", Str("The id")>>>>),
     MkObj(<<<<"name", Str("limit")>>, <<"in", Str("query")>>>>),
     MkObj(<<<<"name", Str("limit")>>, <<"in", Str("query")>>,
             <<"required", Bool(FALSE)>>>>),
     MkObj(<<<<"name", Str("user")>>, <<"in", Str("body")>>,
             <<"required", Str("true")>>>>),
     MkObj(<<<<"name", Str("token")>>, <<"in", Str("header")>>,
             <<"required", Null>>, <<"schema", Null>>>>),
     EmptyObj,
     Null}

\* the sequences of at most n elements of S
RECURSIVE SeqsUpTo(_, _)
SeqsUpTo(S, n) ==
    IF n = 0 THEN {<<>>}
    ELSE LET shorter == SeqsUpTo(S, n - 1)
         IN shorter \cup UNION {{Append(q, x) : x \in S} : q \in shorter}

\* the values of parameters: arrays, and an object, which has no map
ParametersTrees ==
    {Null, EmptyObj}
        \cup {Arr(items) : items \in SeqsUpTo(ParameterTrees, MaxParameters)}

RequestBodyTrees ==
    {Null, EmptyObj}
        \cup {MkObj(<<<<"required", r>>, <<"content", c>>>>) :
                 r \in {Absent, Null, Bool(FALSE), Bool(TRUE)},
                 c \in {Absent, Null} \cup ContentTrees}

OKResponsesTree ==
    MkObj(<<<<"200", MkObj(<<<<"description", Str("OK")>>>>)>>>>)

\* operations that differ in their parameters or in their request body
OperationPartsTrees ==
    {MkObj(<<<<"operationId", Str("createUser")>>, <<"parameters", p>>,
             <<"responses", OKResponsesTree>>>>) : p \in ParametersTrees}
        \cup {MkObj(<<<<"requestBody", b>>, <<"responses", OKResponsesTree>>>>) :
                 b \in RequestBodyTrees}

ResponseKeys == {"200", "404", "default"}

ResponsesTrees ==
    ObjectsOver(DistinctSeqs(ResponseKeys, MaxResponses), ResponseTrees)

\* an operation with one response
OperationTree ==
    MkObj(<<<<"summary", Str("List")>>,
            <<"responses",
              MkObj(<<<<"200", MkObj(<<<<"description", Str("OK")>>>>)>>>>)>>>>)

OperationTrees == {OperationTree, Null, Bool(TRUE)}

\* every method's key, and one key that names no method of the importer
PathItemKeys ==
    {"get", "post", "put", "delete", "patch", "head", "options", "trace"}

PathItemTrees ==
    {Null, Bool(TRUE)}
        \cup ObjectsOver(DistinctSeqs(PathItemKeys, MaxOps), OperationTrees)

\* a few path items, for the documents of several paths
SmallPathItemTrees ==
    {Null, Bool(TRUE), Str("item"), Num(42), EmptyObj,
     MkObj(<<<<"get", OperationTree>>>>),
     MkObj(<<<<"delete", OperationTree>>>>),
     MkObj(<<<<"get", OperationTree>>, <<"post", OperationTree>>>>),
     MkObj(<<<<"post", OperationTree>>, <<"get", OperationTree>>>>),
     MkObj(<<<<"get", OperationTree>>, <<"delete", OperationTree>>>>)}

\* "1" is a path key that is a canonical array index
PathKeys == {"/users", "/users/{id}", "1"}

PathsTrees ==
    ObjectsOver({<<"/users">>}, PathItemTrees)
        \cup ObjectsOver(DistinctSeqs(PathKeys, MaxPaths), SmallPathItemTrees)
        \cup {MkObj(<<<<"/users",
                        MkObj(<<<<"get", MkObj(<<<<"responses", r>>>>)>>>>)>>>>) :
                 r \in ResponsesTrees \cup {Absent}}
        \cup {MkObj(<<<<"/users", MkObj(<<<<"post", op>>>>)>>>>) :
                 op \in OperationPartsTrees}

InfoTree == MkObj(<<<<"title", Str("Test API")>>, <<"version", Str("1.0.0")>>>>)

InfoTrees ==
    {Absent, Null, Bool(TRUE)}
        \cup {MkObj(<<<<"title", ti>>, <<"version", ve>>, <<"description", de>>>>) :
                 ti \in {Absent, Str(""), Str("Test API")},
                 ve \in {Absent, Null, Str("1.0.0")},
                 de \in {Absent, Str("About")}}

OnePathTree == MkObj(<<<<"/users", MkObj(<<<<"get", OperationTree>>>>)>>>>)

ComponentsTree == MkObj(<<<<"schemas", MkObj(<<<<"User", SchemaTree>>>>)>>>>)

\* the values of components: null, without sections, with one section, with
\* the three sections the importer copies and one it does not
ComponentsTrees ==
    {Null, EmptyObj, ComponentsTree,
     MkObj(<<<<"responses",
               MkObj(<<<<"NotFound",
                         MkObj(<<<<"description", Str("Not found")>>>>)>>>>)>>,
             <<"securitySchemes", MkObj(<<<<"key", EmptyObj>>>>)>>,
             <<"parameters",
               MkObj(<<<<"limit",
                         MkObj(<<<<"name", Str("limit")>>,
                                 <<"in", Str("query")>>>>)>>>>)>>,
             <<"schemas",
               MkObj(<<<<"User", SchemaTree>>, <<"1", SchemaTree>>>>)>>>>)}

DocumentTree(o, i, p, c) ==
    MkObj(<<<<"openapi", o>>, <<"info", i>>, <<"paths", p>>,
            <<"components", c>>>>)

\* documents that differ in their top-level fields
TopLevelTrees ==
    {DocumentTree(o, i, p, c) :
        o \in {Absent, Null, Str(""), Str("3.0.0")},
        i \in InfoTrees,
        p \in {Absent, Null, EmptyObj, OnePathTree},
        c \in {Absent, ComponentsTree}}

\* documents that pass validation and differ in their paths
PathsDocumentTrees ==
    {DocumentTree(Str("3.0.0"), InfoTree, p, Absent) : p \in PathsTrees}

\* a few documents, for every source
CommonTrees ==
    {DocumentTree(Str("3.0.0"), InfoTree, OnePathTree, Absent),
     DocumentTree(Str("3.0.0"), Absent, EmptyObj, Absent),
     DocumentTree(Str("3.0.0"), InfoTree,
                  MkObj(<<<<"/users", Null>>>>), Absent),
     Null}

\* documents whose mandatory fields have values of other types than an
\* OpenAPI document gives them
OddlyTypedTrees ==
    {DocumentTree(Bool(TRUE),
                  MkObj(<<<<"title", Bool(TRUE)>>, <<"version", SchemaTree>>>>),
                  Bool(TRUE), Absent),
     DocumentTree(SchemaTree, InfoTree, OnePathTree, Absent),
     DocumentTree(Str("3.0.0"), InfoTree, Bool(FALSE), Absent)}

\* documents that pass validation and differ in their components
ComponentsDocumentTrees ==
    {DocumentTree(Str("3.0.0"), InfoTree, OnePathTree, c) : c \in ComponentsTrees}

AllTrees ==
    TopLevelTrees \cup PathsDocumentTrees \cup ComponentsDocumentTrees
        \cup OddlyTypedTrees \cup CommonTrees

FilePaths ==
    {<<"/", "s">> \o ext :
        ext \in {<<".", "j", "s", "o", "n">>, <<".", "y", "a", "m", "l">>,
                 <<".", "y", "m", "l">>, <<".", "Y", "A", "M", "L">>,
                 <<".", "Y", "m", "l">>, <<"y", "a", "m", "l">>,
                 <<".", "y", "a", "m", "l", ".", "j", "s", "o", "n">>,
                 <<".", "y", "a", "m">>, <<>>}}

Urls == {<<"h", ":", "/", "a", ".", "j", "s", "o", "n">>,
         <<"h", ":", "/", "a", ".", "y", "a", "m", "l">>}

\* the path and the URL under which every document of the model is found
MainFilePaths == {<<"/", "s", ".", "j", "s", "o", "n">>}
MainUrl == <<"h", ":", "/", "a", ".", "j", "s", "o", "n">>

Text(syntax, tree) == [t |-> "text", syntax |-> syntax, tree |-> tree]

\* what fs.readFile(filePath, 'utf-8') may settle with
ReadFileOutcomes(filePath) ==
    {Throw(JSError("Error", Message("ENOENT", <<>>), Undef)),
     Text("neither", Absent)}
        \cup {Text(syntax, tree) :
                 syntax \in {"json", "yaml"}, tree \in CommonTrees}
        \cup IF filePath \in MainFilePaths
             THEN {Text("json", tree) : tree \in AllTrees}
             ELSE {}

\* what axios.get(url) may settle with: a rejection, or a response whose data
\* is the decoded body, or the body's text when the transport decoded nothing
AxiosGetOutcomes(url) ==
    {Throw(JSError("Error", Message("Network Error", <<>>), Undef)),
     [t |-> "response", body |-> Absent, data |-> Str("openapi: 3.0.0")],
     [t |-> "response", body |-> Absent, data |-> Str("")],
     [t |-> "response", body |-> Absent, data |-> Undef]}
        \cup {[t |-> "response", body |-> tree, data |-> Materialize(tree)] :
                 tree \in IF url = MainUrl THEN AllTrees ELSE CommonTrees}

-----------------------------------------------------------------------------
(* The calls *)

Idle == pc \in {"idle", "returned", "rejected"}

\* the call fs.readFile(filePath, encoding), as issued
readFile(filePath, encoding) ==
    [op |-> "fs.readFile", target |-> filePath, encoding |-> encoding]

\* the call axios.get(url), as issued
axiosGet(url) == [op |-> "axios.get", target |-> url, encoding |-> "none"]

\* the locals of a call that has not been made
NoCall ==
    [pc |-> "idle", kind |-> "none", source |-> <<>>, written |-> Absent,
     content |-> Absent, format |-> "none", document |-> Absent,
     thrown |-> Absent, outcome |-> Absent, steps |-> <<>>, ios |-> <<>>]

\* the locals of the call that is running
Locals ==
    [pc |-> pc, kind |-> kind, source |-> source, written |-> written,
     content |-> content, format |-> format, document |-> document,
     thrown |-> thrown, outcome |-> outcome, steps |-> steps, ios |-> ios]

Init ==
    /\ other = NoCall
    /\ toolRequest = Absent
    /\ toolResponse = Absent
    /\ reqPc = "idle"
    /\ reqConfig = Absent
    /\ axiosConfig = Absent
    /\ transport = <<>>
    /\ settled = Absent
    /\ reqOutcome = Absent
    /\ pc = "idle"
    /\ kind = "none"
    /\ source = <<>>
    /\ written = Absent
    /\ content = Absent
    /\ format = "none"
    /\ document = Absent
    /\ thrown = Absent
    /\ outcome = Absent
    /\ steps = <<>>
    /\ ios = <<>>

\* importer.importFromFile(filePath) is called: the read is issued
importFromFile(filePath) ==
    /\ Idle
    /\ pc' = "reading"
    /\ kind' = "file"
    /\ source' = filePath
    /\ steps' = <<"read">>
    /\ ios' = <<readFile(filePath, "utf-8")>>
    /\ written' = Absent
    /\ content' = Absent
    /\ format' = "none"
    /\ document' = Absent
    /\ thrown' = Absent
    /\ outcome' = Absent
    /\ UNCHANGED <<other, serverVars, requestVars>>

\* importer.importFromUrl(url) is called: the request is issued
importFromUrl(url) ==
    /\ Idle
    /\ pc' = "fetching"
    /\ kind' = "url"
    /\ source' = url
    /\ steps' = <<"fetch">>
    /\ ios' = <<axiosGet(url)>>
    /\ written' = Absent
    /\ content' = Absent
    /\ format' = "none"
    /\ document' = Absent
    /\ thrown' = Absent
    /\ outcome' = Absent
    /\ UNCHANGED <<other, serverVars, requestVars>>

\* await fs.readFile(filePath, 'utf-8') settles
readFileSettles ==
    /\ pc = "reading"
    /\ \E r \in ReadFileOutcomes(source) :
          IF IsThrow(r)
          THEN /\ thrown' = r.err
               /\ pc' = "catch"
               /\ UNCHANGED <<content, written>>
          ELSE /\ content' = r
               /\ written' = r.tree
               /\ pc' = "detect"
               /\ UNCHANGED thrown
    /\ UNCHANGED <<kind, source, format, document, outcome, steps, ios>>
    /\ UNCHANGED <<other, serverVars, requestVars>>

\* const format = this.detectFormat(filePath)
detectFormatStep ==
    /\ pc = "detect"
    /\ format' = detectFormat(source)
    /\ pc' = "parse"
    /\ UNCHANGED <<kind, source, written, content, document, thrown, outcome,
                   steps, ios>>
    /\ UNCHANGED <<other, serverVars, requestVars>>

\* const document = this.parseDocument(content, format)
parseDocumentStep ==
    /\ pc = "parse"
    /\ steps' = Append(steps, "parse")
    /\ LET r == parseDocument(content, format)
       IN IF IsThrow(r)
          THEN /\ thrown' = r.err
               /\ pc' = "catch"
               /\ UNCHANGED document
          ELSE /\ document' = r
               /\ pc' = "validate"
               /\ UNCHANGED thrown
    /\ UNCHANGED <<kind, source, written, content, format, outcome, ios>>
    /\ UNCHANGED <<other, serverVars, requestVars>>

\* await axios.get(url) settles; const document = response.data
axiosGetSettles ==
    /\ pc = "fetching"
    /\ \E r \in AxiosGetOutcomes(source) :
          IF IsThrow(r)
          THEN /\ thrown' = r.err
               /\ pc' = "catch"
               /\ UNCHANGED <<document, written>>
          ELSE /\ document' = r.data
               /\ written' = r.body
               /\ pc' = "validate"
               /\ UNCHANGED thrown
    /\ UNCHANGED <<kind, source, content, format, outcome, steps, ios>>
    /\ UNCHANGED <<other, serverVars, requestVars>>

\* a variant of validateSpecStep after which the call goes on to the
\* extraction whatever the validator did
validateSpecStepGoingOn ==
    /\ pc = "validate"
    /\ steps' = Append(steps, "validate")
    /\ pc' = "extract"
    /\ UNCHANGED <<kind, source, written, content, format, document, thrown,
                   outcome, ios>>
    /\ UNCHANGED <<other, serverVars, requestVars>>

\* this.validateSpec(document)
validateSpecStep ==
    /\ pc = "validate"
    /\ steps' = Append(steps, "validate")
    /\ LET r == validateSpec(document)
       IN IF IsThrow(r)
          THEN thrown' = r.err /\ pc' = "catch"
          ELSE pc' = "extract" /\ UNCHANGED thrown
    /\ UNCHANGED <<kind, source, written, content, format, document, outcome,
                   ios>>
    /\ UNCHANGED <<other, serverVars, requestVars>>

\* a variant of extractSpecificationStep in which the endpoints are pushed to
\* a list that the importer keeps from the call that returned before
extractSpecificationStepAccumulating ==
    /\ pc = "extract"
    /\ steps' = Append(steps, "extract")
    /\ LET r == extractSpecification(document)
       IN IF IsThrow(r)
          THEN /\ thrown' = r.err
               /\ pc' = "catch"
               /\ UNCHANGED outcome
          ELSE /\ outcome' =
                     [r EXCEPT !.endpoints =
                         (IF other.pc = "returned"
                          THEN other.outcome.endpoints ELSE <<>>) \o @]
               /\ pc' = "returned"
               /\ UNCHANGED thrown
    /\ UNCHANGED <<kind, source, written, content, format, document, ios>>
    /\ UNCHANGED <<other, serverVars, requestVars>>

\* return this.extractSpecification(document)
extractSpecificationStep ==
    /\ pc = "extract"
    /\ steps' = Append(steps, "extract")
    /\ LET r == extractSpecification(document)
       IN IF IsThrow(r)
          THEN /\ thrown' = r.err
               /\ pc' = "catch"
               /\ UNCHANGED outcome
          ELSE /\ outcome' = r
               /\ pc' = "returned"
               /\ UNCHANGED thrown
    /\ UNCHANGED <<kind, source, written, content, format, document, ios>>
    /\ UNCHANGED <<other, serverVars, requestVars>>

\* a variant of rethrown that wraps whatever was thrown
rethrownAlwaysWrapped(error, text, src) ==
    OpenAPIImportError(Message(text, src), error)

\* a variant of rethrown that lets whatever was thrown pass
rethrownNeverWrapped(error, text, src) == error

\* a variant of rethrown whose wrapper keeps no cause
rethrownWithoutCause(error, text, src) ==
    IF InstanceOfValidationError(error) \/ InstanceOfOpenAPIImportError(error)
    THEN error
    ELSE OpenAPIImportError(Message(text, src), Undef)

\* what the catch clause of an entry point throws for what it caught
rethrown(error, text, src) ==
    IF InstanceOfValidationError(error) \/ InstanceOfOpenAPIImportError(error)
    THEN error
    ELSE OpenAPIImportError(Message(text, src), error)

\* a variant of catchStep that issues the failed read or request once more
catchStepRetrying ==
    /\ pc = "catch"
    /\ IF steps \in {<<"read">>, <<"fetch">>} /\ Len(ios) < 2
       THEN /\ ios' = Append(ios, ios[1])
            /\ pc' = IF kind = "file" THEN "reading" ELSE "fetching"
            /\ thrown' = Absent
            /\ UNCHANGED outcome
       ELSE /\ outcome' =
                  Throw(rethrown(thrown,
                                 IF kind = "file"
                                 THEN "Failed to import OpenAPI spec from file: "
                                 ELSE "Failed to import OpenAPI spec from URL: ",
                                 source))
            /\ pc' = "rejected"
            /\ UNCHANGED <<thrown, ios>>
    /\ UNCHANGED <<kind, source, written, content, format, document, steps>>
    /\ UNCHANGED <<other, serverVars, requestVars>>

\* catch (error) { ... } of importFromFile / importFromUrl
catchStep ==
    /\ pc = "catch"
    /\ outcome' =
          Throw(rethrown(thrown,
                         IF kind = "file"
                         THEN "Failed to import OpenAPI spec from file: "
                         ELSE "Failed to import OpenAPI spec from URL: ",
                         source))
    /\ pc' = "rejected"
    /\ UNCHANGED <<kind, source, written, content, format, document, thrown,
                   steps, ios>>
    /\ UNCHANGED <<other, serverVars, requestVars>>

Next ==
    \/ \E filePath \in FilePaths : importFromFile(filePath)
    \/ \E url \in Urls : importFromUrl(url)
    \/ readFileSettles
    \/ detectFormatStep
    \/ parseDocumentStep
    \/ axiosGetSettles
    \/ validateSpecStep
    \/ extractSpecificationStep
    \/ catchStep

Spec == Init /\ [][Next]_vars

-----------------------------------------------------------------------------
(* Two calls in flight *)

\* The importer has no field: all that a call reads and writes are its
\* arguments and the constants of its own activation.  An async call runs
\* until its await and then leaves the thread to whatever else is ready, so
\* that the steps of two calls interleave; the model lets the thread pass
\* from one call to the other before any step.

\* a variant of switchCall in which format is a field of the importer, which
\* the two calls share
switchCallSharingFormat ==
    /\ other' = [Locals EXCEPT !.format = other.format]
    /\ pc' = other.pc
    /\ kind' = other.kind
    /\ source' = other.source
    /\ written' = other.written
    /\ content' = other.content
    /\ document' = other.document
    /\ thrown' = other.thrown
    /\ outcome' = other.outcome
    /\ steps' = other.steps
    /\ ios' = other.ios
    /\ UNCHANGED <<format, serverVars, requestVars>>

\* the thread passes from the running call to the other one
switchCall ==
    /\ other' = Locals
    /\ pc' = other.pc
    /\ kind' = other.kind
    /\ source' = other.source
    /\ written' = other.written
    /\ content' = other.content
    /\ format' = other.format
    /\ document' = other.document
    /\ thrown' = other.thrown
    /\ outcome' = other.outcome
    /\ steps' = other.steps
    /\ ios' = other.ios
    /\ UNCHANGED <<serverVars, requestVars>>

\* the paths and the URL of the calls that interleave
TwoCallFilePaths == {<<"/", "s", ".", "y", "a", "m", "l">>, <<"/", "s">>}
TwoCallUrls == Urls \ {MainUrl}

NextTwo ==
    \/ \E filePath \in TwoCallFilePaths : importFromFile(filePath)
    \/ \E url \in TwoCallUrls : importFromUrl(url)
    \/ readFileSettles
    \/ detectFormatStep
    \/ parseDocumentStep
    \/ axiosGetSettles
    \/ validateSpecStep
    \/ extractSpecificationStep
    \/ catchStep
    \/ switchCall

SpecTwo == Init /\ [][NextTwo]_vars

-----------------------------------------------------------------------------
(* The request helpers: createRequest and executeRequest *)

\* the timeout of a request whose configuration gives none, in milliseconds
DefaultTimeout == 30000

\* a variant of createRequest that leaves the query parameters out
createRequestWithoutParams(config) ==
    [method |-> config.method,
     url |-> config.url,
     headers |-> config.headers,
     params |-> Undef,
     data |-> config.data,
     timeout |-> OrElse(config.timeout, Num(DefaultTimeout))]

\* createRequest(config); a field the configuration lacks reads as undefined
createRequest(config) ==
    [method |-> config.method,
     url |-> config.url,
     headers |-> config.headers,
     params |-> config.params,
     data |-> config.data,
     timeout |-> OrElse(config.timeout, Num(DefaultTimeout))]

\* the literal executeRequest returns for the response of the transport
responseOfTransport(response) ==
    [data |-> response.data,
     status |-> response.status,
     statusText |-> response.statusText,
     headers |-> response.headers]

\* the configurations given to createRequest; a timeout of 0 asks the
\* transport for no timeout
RequestConfigs ==
    [method : {Str("GET"), Str("POST")},
     url : {Str("https://api.example.com/users")},
     headers : {Undef,
                MkObj(<<<<"Authorization", Str("Bearer token123")>>>>)},
     params : {Undef, MkObj(<<<<"page", Num(2)>>>>)},
     data : {Undef, MkObj(<<<<"name", Str("John")>>>>)},
     timeout : {Undef, Num(0), Num(5000), Num(DefaultTimeout)}]

\* what axios.request(config) may settle with: a response, which has more
\* fields than executeRequest returns, or the error of the transport
AxiosRequestOutcomes(config) ==
    {[t |-> "response", data |-> MkObj(<<<<"message", Str("success")>>>>),
      status |-> Num(200), statusText |-> Str("OK"),
      headers |-> MkObj(<<<<"content-type", Str("application/json")>>>>),
      config |-> config],
     [t |-> "response", data |-> Str(""), status |-> Num(204),
      statusText |-> Str("No Content"), headers |-> EmptyObj,
      config |-> config],
     Throw(JSError("Error", Message("Network Error", <<>>), Undef)),
     Throw(JSError("AxiosError",
                   Message("Request failed with status code 404", <<>>),
                   Undef)),
     Throw(JSError("AxiosError", Message("timeout exceeded", <<>>), Undef))}

\* const request = createRequest(config)
createRequestCall(config) ==
    /\ reqPc \in {"idle", "returned", "rejected"}
    /\ reqConfig' = config
    /\ axiosConfig' = createRequest(config)
    /\ reqPc' = "created"
    /\ transport' = <<>>
    /\ settled' = Absent
    /\ reqOutcome' = Absent
    /\ UNCHANGED <<pc, kind, source, written, content, format, document,
                   thrown, outcome, steps, ios, other, serverVars>>

\* executeRequest(request) is called: the request goes to the transport
executeRequestCall ==
    /\ reqPc = "created"
    /\ transport' = Append(transport, axiosConfig)
    /\ reqPc' = "requesting"
    /\ UNCHANGED <<reqConfig, axiosConfig, settled, reqOutcome>>
    /\ UNCHANGED <<pc, kind, source, written, content, format, document,
                   thrown, outcome, steps, ios, other, serverVars>>

\* a variant of axiosRequestSettles that wraps the error of the transport
axiosRequestSettlesWrapping ==
    /\ reqPc = "requesting"
    /\ \E r \in AxiosRequestOutcomes(axiosConfig) :
          /\ settled' = r
          /\ IF IsThrow(r)
             THEN /\ reqOutcome' =
                        Throw(OpenAPIImportError(
                                  Message("Request failed", <<>>), r.err))
                  /\ reqPc' = "rejected"
             ELSE /\ reqOutcome' = responseOfTransport(r)
                  /\ reqPc' = "returned"
    /\ UNCHANGED <<reqConfig, axiosConfig, transport>>
    /\ UNCHANGED <<pc, kind, source, written, content, format, document,
                   thrown, outcome, steps, ios, other, serverVars>>

\* await axios.request(config) settles; executeRequest has no catch
axiosRequestSettles ==
    /\ reqPc = "requesting"
    /\ \E r \in AxiosRequestOutcomes(axiosConfig) :
          /\ settled' = r
          /\ IF IsThrow(r)
             THEN /\ reqOutcome' = r
                  /\ reqPc' = "rejected"
             ELSE /\ reqOutcome' = responseOfTransport(r)
                  /\ reqPc' = "returned"
    /\ UNCHANGED <<reqConfig, axiosConfig, transport>>
    /\ UNCHANGED <<pc, kind, source, written, content, format, document,
                   thrown, outcome, steps, ios, other, serverVars>>

NextRequest ==
    \/ \E config \in RequestConfigs : createRequestCall(config)
    \/ executeRequestCall
    \/ axiosRequestSettles

SpecRequest == Init /\ [][NextRequest]_vars

-----------------------------------------------------------------------------
(* The server: the handler of call_tool requests *)

\* the names of the tools listTools advertises
ToolNames ==
    {"create_request", "execute_request", "import_openapi",
     "generate_test_suite", "execute_test_workflow", "validate_response",
     "create_mock_server", "analyze_performance"}

\* JSON.stringify of a member of the arguments
stringifyMember(v) ==
    IF v.t = "string" THEN [json |-> "string", s |-> v.s]
    ELSE IF v.t = "number" THEN [json |-> "number", n |-> v.n]
    ELSE IF v.t = "boolean" THEN [json |-> "boolean", b |-> v.b]
    ELSE [json |-> "null"]

\* JSON.stringify(args, null, 2) of arguments with scalar members: a member
\* that is undefined is left out, and undefined itself gives undefined,
\* which the template literal prints as "undefined"
JSONStringify(args) ==
    IF args.t # "object" THEN [json |-> "undefined"]
    ELSE LET kept == SelectSeq(args.keys, LAMBDA k : args.val[k] # Undef)
         IN [json |-> "object",
             members |-> [i \in DOMAIN kept |->
                             <<kept[i], stringifyMember(args.val[kept[i]])>>]]

\* the value the handler returns in its try block
pendingResponse(name, args) ==
    [content |-> <<[type |-> "text",
                    text |-> [template |-> "implementation pending",
                              name |-> name,
                              arguments |-> JSONStringify(args)]]>>]

\* the arguments of the requests: those of import_openapi, and none
ToolArguments ==
    {Undef} \cup
    {MkObj(<<<<"source", Str(src)>>, <<"sourceType", sourceType>>>>) :
        src \in FilePaths \cup Urls,
        sourceType \in {Str("file"), Str("url"), Absent}}

\* the handler of CallToolRequestSchema: no tool is called
callTool(name, args) ==
    /\ toolRequest' = [name |-> name, arguments |-> args]
    /\ toolResponse' = pendingResponse(name, args)
    /\ UNCHANGED <<pc, kind, source, written, content, format, document,
                   thrown, outcome, steps, ios, other, requestVars>>

NextServer ==
    \E name \in ToolNames, args \in ToolArguments : callTool(name, args)

SpecServer == Init /\ [][NextServer]_vars

-----------------------------------------------------------------------------
(* What the properties speak of *)

Returned == pc = "returned"
Rejected == pc = "rejected"
LastStep == IF steps = <<>> THEN "none" ELSE steps[Len(steps)]

\* whether v is an object written with the key k, whatever its value
HasProperty(v, k) == v.t = "object" /\ k \in Range(v.keys)

FalsyValues == {Undef, Null, Str(""), Bool(FALSE), Num(0)}

HTTPMethods == <<"GET", "POST", "PUT", "DELETE", "PATCH", "HEAD", "OPTIONS">>

MethodKey(m) ==
    CASE m = "GET" -> "get" [] m = "POST" -> "post" [] m = "PUT" -> "put"
      [] m = "DELETE" -> "delete" [] m = "PATCH" -> "patch"
      [] m = "HEAD" -> "head" [] m = "OPTIONS" -> "options"

\* the (path, method) pairs of the returned endpoints, in their order
EndpointPairs ==
    [i \in DOMAIN outcome.endpoints |->
        <<outcome.endpoints[i].path, outcome.endpoints[i].method>>]

\* the paths object as written, and its keys in the order of the document
WrittenPaths == Get(written, "paths")
WrittenPathKeys == ObjectKeys(WrittenPaths)

\* every (path, method), paths in the order given and methods in the fixed one
WalkOrder(pathKeys) ==
    Flatten([i \in DOMAIN pathKeys |->
                [j \in DOMAIN HTTPMethods |-> <<pathKeys[i], HTTPMethods[j]>>]])

-----------------------------------------------------------------------------
(* C1 *)

\* C1: the endpoints of a returned specification follow the path keys in the
\* order of the document and, within a path, the methods in the order GET,
\* POST, PUT, DELETE, PATCH, HEAD, OPTIONS; an endpoint is there only for a
\* method whose property the path item has.
C1_EndpointsInDocumentOrder ==
    Returned =>
        /\ EndpointPairs =
              SelectSeq(WalkOrder(WrittenPathKeys),
                        LAMBDA pm : pm \in Range(EndpointPairs))
        /\ \A pm \in Range(EndpointPairs) :
              HasProperty(Get(WrittenPaths, pm[1]), MethodKey(pm[2]))

-----------------------------------------------------------------------------
(* C2 *)

\* C2 as claimed: a returned specification has an endpoint (p, m) exactly when
\* the path item at p has a property named by m's lower-case name, whatever
\* its value.
C2_EndpointIffProperty ==
    Returned =>
        \A p \in Range(WrittenPathKeys) : \A m \in Range(HTTPMethods) :
            <<p, m>> \in Range(EndpointPairs)
                <=> HasProperty(Get(WrittenPaths, p), MethodKey(m))

\* C2 as amended: a returned specification has an endpoint (p, m) exactly when
\* the path item at p has a property named by m's lower-case name whose value
\* is truthy (not null, false or the empty string).
C2_EndpointIffTruthyProperty ==
    Returned =>
        \A p \in Range(WrittenPathKeys) : \A m \in Range(HTTPMethods) :
            <<p, m>> \in Range(EndpointPairs)
                <=> /\ HasProperty(Get(WrittenPaths, p), MethodKey(m))
                    /\ Get(WrittenPaths, p).val[MethodKey(m)] \notin FalsyValues

\* a specification is returned for a document with a null operation beside
\* one that yields an endpoint
C2_Witness ==
    /\ Returned
    /\ Len(outcome.endpoints) > 0
    /\ \E p \in Range(WrittenPathKeys) : \E m \in Range(HTTPMethods) :
          /\ HasProperty(Get(WrittenPaths, p), MethodKey(m))
          /\ Get(WrittenPaths, p).val[MethodKey(m)] = Null

-----------------------------------------------------------------------------
(* C3 *)

MandatoryFields == <<"openapi", "info", "info.title", "info.version", "paths">>

\* the value of a mandatory field of a document that is neither null nor
\* undefined
FieldValue(doc, f) ==
    CASE f = "openapi" -> Get(doc, "openapi")
      [] f = "info" -> Get(doc, "info")
      [] f = "info.title" -> Get(Get(doc, "info"), "title")
      [] f = "info.version" -> Get(Get(doc, "info"), "version")
      [] f = "paths" -> Get(doc, "paths")

\* the fields a document does not have; the sub-fields of info count when
\* info is there
AbsentFields(doc) ==
    SelectSeq(MandatoryFields,
              LAMBDA f :
                  /\ FieldValue(doc, f) = Undef
                  /\ f \in {"info.title", "info.version"}
                        => FieldValue(doc, "info") # Undef)

\* the fields a document does not have or has with a falsy value; the
\* sub-fields of info count when info is truthy
LackingFields(doc) ==
    SelectSeq(MandatoryFields,
              LAMBDA f :
                  /\ FieldValue(doc, f) \in FalsyValues
                  /\ f \in {"info.title", "info.version"}
                        => FieldValue(doc, "info") \notin FalsyValues)

\* validateSpec was the last step to run: it returned (pc = "extract") or
\* threw what thrown holds
Validated == LastStep = "validate"

\* C3 as claimed: the validation error carries one message for every missing
\* mandatory field, in the order openapi, info (or info.title, info.version),
\* paths, and the validator raises nothing exactly when no field is missing.
C3_AllMissingFields ==
    Validated =>
        /\ pc = "extract" <=> AbsentFields(document) = <<>>
        /\ pc # "extract" /\ InstanceOfValidationError(thrown)
              => thrown.errors = AbsentFields(document)

\* C3 as amended: for a document that is neither null nor undefined, the
\* validator raises a validation error that carries one message for every
\* mandatory field that is missing or falsy, in the order openapi, info (or
\* info.title, info.version), paths; it raises nothing exactly when no field
\* is missing or falsy.  For null or undefined it raises a TypeError.
C3_AllLackingFields ==
    Validated =>
        IF Nullish(document)
        THEN pc # "extract" /\ thrown = TypeError
        ELSE /\ pc = "extract" <=> LackingFields(document) = <<>>
             /\ pc # "extract"
                   => /\ InstanceOfValidationError(thrown)
                      /\ thrown.errors = LackingFields(document)

\* the validator raised an error with three messages
C3_Witness ==
    /\ Validated
    /\ pc = "catch"
    /\ InstanceOfValidationError(thrown)
    /\ thrown.errors = <<"openapi", "info.title", "paths">>

-----------------------------------------------------------------------------
(* C4 *)

Count(seq, x) == Cardinality({i \in DOMAIN seq : seq[i] = x})

\* C4: a document without info fails with a validation error that has one
\* entry for info and none for info.title or info.version; a document whose
\* info has a title and no version fails with a validation error that names
\* info.version and has no entry for info; each sub-field that an info object
\* does not have is an entry of its own.
C4_InfoEntries ==
    Validated /\ document.t = "object" =>
        /\ ~HasProperty(document, "info")
              => /\ pc # "extract"
                 /\ InstanceOfValidationError(thrown)
                 /\ Count(thrown.errors, "info") = 1
                 /\ Count(thrown.errors, "info.title") = 0
                 /\ Count(thrown.errors, "info.version") = 0
        /\ Get(document, "info").t = "object"
              => /\ ~HasProperty(Get(document, "info"), "title")
                    => /\ pc # "extract"
                       /\ InstanceOfValidationError(thrown)
                       /\ Count(thrown.errors, "info.title") = 1
                 /\ ~HasProperty(Get(document, "info"), "version")
                    => /\ pc # "extract"
                       /\ InstanceOfValidationError(thrown)
                       /\ Count(thrown.errors, "info.version") = 1
                 /\ pc # "extract" /\ InstanceOfValidationError(thrown)
                    => Count(thrown.errors, "info") = 0

\* a document whose only flaw is an info without version was validated
C4_Witness ==
    /\ Validated
    /\ document.t = "object"
    /\ Get(document, "info").t = "object"
    /\ HasProperty(Get(document, "info"), "title")
    /\ ~HasProperty(Get(document, "info"), "version")
    /\ InstanceOfValidationError(thrown)
    /\ thrown.errors = <<"info.version">>

-----------------------------------------------------------------------------
(* C5 *)

\* C5: a call that fails, at whatever step, rejects with an import error or a
\* validation error, never with another exception.
C5_TypedRejection ==
    Rejected =>
        /\ IsThrow(outcome)
        /\ outcome.err.class \in {"OpenAPIImportError", "ValidationError"}

\* a call was rejected for a TypeError of the extraction
C5_Witness ==
    /\ Rejected
    /\ LastStep = "extract"
    /\ thrown.class = "TypeError"

-----------------------------------------------------------------------------
(* C6 *)

GenericTexts == {"Failed to import OpenAPI spec from file: ",
                 "Failed to import OpenAPI spec from URL: "}

\* C6: a parse failure or a validation failure reaches the caller as it was
\* raised: same kind, message, cause and error list, not the generic message.
C6_TypedErrorsPassUnchanged ==
    Rejected =>
        /\ LastStep = "parse"
              => /\ outcome.err = thrown
                 /\ outcome.err.class = "OpenAPIImportError"
                 /\ outcome.err.message = Message("Failed to parse document", <<>>)
                 /\ outcome.err.cause.class \in {"SyntaxError", "YAMLParseError"}
        /\ LastStep = "validate" /\ ~Nullish(document)
              => /\ outcome.err = thrown
                 /\ outcome.err.class = "ValidationError"
                 /\ outcome.err.message.text \notin GenericTexts
                 /\ outcome.err.cause = Undef
                 /\ outcome.err.errors = LackingFields(document)

\* a call of importFromUrl was rejected with the validation error raised
C6_Witness ==
    /\ Rejected
    /\ kind = "url"
    /\ LastStep = "validate"
    /\ outcome.err.class = "ValidationError"
    /\ Len(outcome.err.errors) = 2

-----------------------------------------------------------------------------
(* C7 *)

\* C7: when the read or the fetch fails, the call rejects with the generic
\* import error, whose message names the path or URL and whose cause is the
\* error of the read or fetch.
C7_AcquisitionFailure ==
    Rejected /\ steps \in {<<"read">>, <<"fetch">>} =>
        /\ outcome.err.class = "OpenAPIImportError"
        /\ outcome.err.message =
              Message(IF kind = "file"
                      THEN "Failed to import OpenAPI spec from file: "
                      ELSE "Failed to import OpenAPI spec from URL: ",
                      source)
        /\ outcome.err.cause = thrown
        /\ thrown.class = "Error"

\* a call of importFromFile was rejected after its read failed
C7_Witness ==
    /\ Rejected
    /\ kind = "file"
    /\ steps = <<"read">>
    /\ thrown.message.text = "ENOENT"

-----------------------------------------------------------------------------
(* C8 *)

\* the text read is not of the format selected
CannotDeserialize ==
    /\ kind = "file"
    /\ "parse" \in Range(steps)
    /\ \/ format = "json" /\ content.syntax # "json"
       \/ format = "yaml" /\ content.syntax = "neither"

\* C8: when the text read cannot be deserialized in the selected format, the
\* call rejects with an import error whose message is 'Failed to parse
\* document' and whose cause is the parser's exception; nothing is validated,
\* extracted or returned.
C8_ParseFailure ==
    CannotDeserialize =>
        /\ pc \in {"catch", "rejected"}
        /\ steps = <<"read", "parse">>
        /\ document = Absent
        /\ thrown.class = "OpenAPIImportError"
        /\ thrown.message = Message("Failed to parse document", <<>>)
        /\ thrown.cause.class =
              (IF format = "yaml" THEN "YAMLParseError" ELSE "SyntaxError")
        /\ pc = "rejected" => outcome = Throw(thrown)

\* a YAML text read from a path that selects JSON was rejected
C8_Witness ==
    /\ Rejected
    /\ CannotDeserialize
    /\ content.syntax = "yaml"
    /\ format = "json"

-----------------------------------------------------------------------------
(* C9 *)

\* a is b, or the upper-case form of the lower-case letter b
SameLetter(a, b) ==
    \/ a = b
    \/ <<a, b>> \in {<<"A", "a">>, <<"L", "l">>, <<"M", "m">>, <<"Y", "y">>}

EndsWithIgnoringCase(s, ext) ==
    /\ Len(s) >= Len(ext)
    /\ \A i \in DOMAIN ext : SameLetter(s[Len(s) - Len(ext) + i], ext[i])

\* C9: the format is YAML when the path ends in .yaml or .yml, letters of
\* either case, and JSON for every other path, whatever the file holds.
C9_FormatFromPath ==
    format # "none" =>
        (format = "yaml"
            <=> \/ EndsWithIgnoringCase(source, <<".", "y", "a", "m", "l">>)
                \/ EndsWithIgnoringCase(source, <<".", "y", "m", "l">>))
        /\ format \in {"yaml", "json"}

\* YAML was selected for a path in upper case whose file holds JSON
C9_Witness ==
    /\ format = "yaml"
    /\ source = <<"/", "s", ".", "Y", "A", "M", "L">>
    /\ content.syntax = "json"

-----------------------------------------------------------------------------
(* C10 *)

\* the operation written for an endpoint
WrittenOperation(e) == Get(Get(WrittenPaths, e.path), MethodKey(e.method))

\* C10: the responses of every endpoint of a returned specification have one
\* entry per key of the operation's responses, in the order of the document,
\* numeric status codes and other keys alike, each with that key as its
\* statusCode.
C10_ResponsesInDocumentOrder ==
    Returned =>
        \A i \in DOMAIN outcome.endpoints :
            [j \in DOMAIN outcome.endpoints[i].responses |->
                outcome.endpoints[i].responses[j].statusCode]
              = ObjectKeys(Get(WrittenOperation(outcome.endpoints[i]),
                               "responses"))

-----------------------------------------------------------------------------
(* C11 *)

\* the field k of a written entry, as the parser hands it to the extractor
WrittenField(entry, k) == Materialize(Get(entry, k))

StringSchema == Obj(<<"type">>, [k \in {"type"} |-> Str("string")])

\* the parameters written for an endpoint
WrittenParameters(e) == Get(WrittenOperation(e), "parameters")

\* what C11 says of the Parameter p extracted from the written entry
ParameterOfEntry(p, entry) ==
    /\ p.name = WrittenField(entry, "name")
    /\ p.in = WrittenField(entry, "in")
    /\ p.description = WrittenField(entry, "description")
    /\ ~HasProperty(entry, "required") => p.required = Bool(FALSE)
    /\ Get(entry, "required").t = "boolean"
          => p.required = Get(entry, "required")
    /\ ~HasProperty(entry, "schema") => p.schema = StringSchema
    /\ Get(entry, "schema").t = "object"
          => p.schema = WrittenField(entry, "schema")

\* C11: the parameters of every endpoint of a returned specification have one
\* Parameter per entry of the operation's parameters, in the same order, and
\* none when the operation has no parameters; each has the name, in and
\* description of its entry, required = false when the entry omits required
\* and schema = {type: "string"} when the entry omits schema.
C11_ParametersOfOperation ==
    Returned =>
        \A i \in DOMAIN outcome.endpoints :
            IF Nullish(WrittenParameters(outcome.endpoints[i]))
            THEN outcome.endpoints[i].parameters = <<>>
            ELSE /\ WrittenParameters(outcome.endpoints[i]).t = "array"
                 /\ DOMAIN outcome.endpoints[i].parameters
                       = DOMAIN WrittenParameters(outcome.endpoints[i]).items
                 /\ \A j \in DOMAIN outcome.endpoints[i].parameters :
                       ParameterOfEntry(
                           outcome.endpoints[i].parameters[j],
                           WrittenParameters(outcome.endpoints[i]).items[j])

\* a specification is returned for an operation of two parameters, the first
\* complete and the second without required and schema
C11_Witness ==
    /\ Returned
    /\ \E i \in DOMAIN outcome.endpoints :
          /\ Len(outcome.endpoints[i].parameters) = 2
          /\ outcome.endpoints[i].parameters[1].name = Str("id")
          /\ outcome.endpoints[i].parameters[1].required = Bool(TRUE)
          /\ outcome.endpoints[i].parameters[2].name = Str("limit")
          /\ ~HasProperty(WrittenParameters(outcome.endpoints[i]).items[2],
                          "required")
          /\ outcome.endpoints[i].parameters[2].required = Bool(FALSE)
          /\ outcome.endpoints[i].parameters[2].schema = StringSchema

-----------------------------------------------------------------------------
(* C12 *)

\* the request body written for an endpoint
WrittenRequestBody(e) == Get(WrittenOperation(e), "requestBody")

\* what is said of the list of MediaType extracted from a written content
\* object: one per key, in the order of the document, with the key as
\* mimeType and the schema of the entry, undefined when it has none
MediaTypesOfContent(list, contentTree) ==
    /\ DOMAIN list = DOMAIN ObjectKeys(contentTree)
    /\ \A j \in DOMAIN list :
          /\ list[j].mimeType = ObjectKeys(contentTree)[j]
          /\ list[j].schema
                = WrittenField(Get(contentTree, ObjectKeys(contentTree)[j]),
                               "schema")

-----------------------------------------------------------------------------
(* C13 *)

\* the entry written under the status code of a response of an endpoint
WrittenResponse(e, r) ==
    Get(Get(WrittenOperation(e), "responses"), r.statusCode)

\* what C13 says of the ResponseSchema r extracted from the written entry
ResponseOfEntry(r, entry) ==
    /\ r.description = IF Nullish(Get(entry, "description")) THEN Str("")
                       ELSE Get(entry, "description")
    /\ IF Nullish(Get(entry, "content"))
             \/ ObjectKeys(Get(entry, "content")) = <<>>
       THEN r.content = Undef
       ELSE /\ r.content.t = "array"
            /\ Len(r.content.items) > 0
            /\ MediaTypesOfContent(r.content.items, Get(entry, "content"))

-----------------------------------------------------------------------------
(* C14 *)

WrittenComponents == Get(written, "components")

\* the sections of components that the specification carries
ComponentsSections == {"schemas", "parameters", "responses"}

Section(components, k) ==
    CASE k = "schemas" -> components.schemas
      [] k = "parameters" -> components.parameters
      [] k = "responses" -> components.responses

-----------------------------------------------------------------------------
(* C15 *)

\* whether a document that is an object has the mandatory field f, whatever
\* its value
Present(doc, f) ==
    CASE f = "openapi" -> HasProperty(doc, "openapi")
      [] f = "info" -> HasProperty(doc, "info")
      [] f = "info.title" -> HasProperty(Get(doc, "info"), "title")
      [] f = "info.version" -> HasProperty(Get(doc, "info"), "version")
      [] f = "paths" -> HasProperty(doc, "paths")

\* C15 as claimed: every document in which openapi, info, info.title,
\* info.version and paths are present passes the validator whatever the type
\* or value of each, and a message names a field only when it is absent.
C15_PresenceOnly ==
    Validated /\ document.t = "object" =>
        /\ (\A f \in Range(MandatoryFields) : Present(document, f))
              => pc = "extract"
        /\ pc # "extract" /\ InstanceOfValidationError(thrown)
              => \A f \in Range(thrown.errors) : ~Present(document, f)

\* C15 as amended: the validator tests the truthiness of each field and
\* nothing else.  Every document that is neither null nor undefined and in
\* which openapi, info, info.title, info.version and paths all have a truthy
\* value passes, whatever the type of each; a message names a field only
\* when it is absent or its value is falsy (null, false, the empty string).
C15_TruthinessOnly ==
    Validated /\ ~Nullish(document) =>
        /\ (\A f \in Range(MandatoryFields) : Truthy(FieldValue(document, f)))
              => pc = "extract"
        /\ pc # "extract"
              => /\ InstanceOfValidationError(thrown)
                 /\ \A f \in Range(thrown.errors) :
                       ~Truthy(FieldValue(document, f))

\* a document whose openapi, title and paths are true and whose version is an
\* object passed the validator
C15_Witness ==
    /\ Validated
    /\ pc = "extract"
    /\ Get(document, "openapi") = Bool(TRUE)
    /\ Get(Get(document, "info"), "title") = Bool(TRUE)
    /\ Get(Get(document, "info"), "version").t = "object"
    /\ Get(document, "paths") = Bool(TRUE)

-----------------------------------------------------------------------------
(* C16 *)

\* the values of in that the interface Parameter states
ParameterLocations == {Str("path"), Str("query"), Str("header"), Str("cookie")}

\* C16: every Parameter of every specification returned, by importFromFile or
\* by importFromUrl, has an in that is one of path, query, header, cookie and
\* a required that is a boolean.
C16_ParametersWellTyped ==
    Returned =>
        \A i \in DOMAIN outcome.endpoints :
            \A j \in DOMAIN outcome.endpoints[i].parameters :
                /\ outcome.endpoints[i].parameters[j].in \in ParameterLocations
                /\ outcome.endpoints[i].parameters[j].required.t = "boolean"

-----------------------------------------------------------------------------
(* C17 *)

IsPrefix(s, full) == Len(s) <= Len(full) /\ s = SubSeq(full, 1, Len(s))

\* C17: a call of importFromFile runs read, parse, validate, extract in this
\* order and a call of importFromUrl runs fetch, validate, extract, without a
\* parse; a step runs only when those before it succeeded: nothing is parsed
\* unless the read gave a text, nothing is validated unless the text parsed
\* (or the fetch gave a response), nothing is extracted unless the validator
\* returned.
C17_StepsInOrder ==
    /\ kind = "file"
          => /\ IsPrefix(steps, <<"read", "parse", "validate", "extract">>)
             /\ "parse" \in Range(steps) => content.t = "text"
             /\ "validate" \in Range(steps)
                   => /\ ~IsThrow(parseDocument(content, format))
                      /\ document = parseDocument(content, format)
    /\ kind = "url"
          => /\ IsPrefix(steps, <<"fetch", "validate", "extract">>)
             /\ "validate" \in Range(steps) => document # Absent
    /\ CannotDeserialize => "validate" \notin Range(steps)
    /\ "extract" \in Range(steps) => ~IsThrow(validateSpec(document))
    /\ IsThrow(validateSpec(document)) /\ "validate" \in Range(steps)
          => /\ LastStep = "validate"
             /\ pc \in {"catch", "rejected"}

\* a call of importFromFile was rejected by the validator after its text
\* parsed: it ran read, parse, validate and no extract
C17_Witness ==
    /\ Rejected
    /\ kind = "file"
    /\ steps = <<"read", "parse", "validate">>
    /\ InstanceOfValidationError(thrown)

-----------------------------------------------------------------------------
(* C18 *)

\* C18: a call of importFromFile issues one read, of the path given, as UTF-8
\* text, and a call of importFromUrl issues one GET, to the URL given; a call
\* whose read or request failed is rejected without having issued another.
C18_OneAcquisition ==
    /\ kind = "file" => ios = <<readFile(source, "utf-8")>>
    /\ kind = "url" => ios = <<axiosGet(source)>>
    /\ Rejected /\ steps \in {<<"read">>, <<"fetch">>}
          => Len(ios) = 1 /\ IsThrow(outcome)

\* a call of importFromUrl was rejected after its only request failed
C18_Witness ==
    /\ Rejected
    /\ kind = "url"
    /\ steps = <<"fetch">>
    /\ thrown.message.text = "Network Error"
    /\ Len(ios) = 1

-----------------------------------------------------------------------------
(* C19 *)

\* the message of the generic import error of an entry point
GenericText(k) ==
    IF k = "file" THEN "Failed to import OpenAPI spec from file: "
    ELSE "Failed to import OpenAPI spec from URL: "

\* what a call settles with, run alone, once it has the document d (or the
\* exception of the parser) in hand
SettledFrom(d, k, src) ==
    IF IsThrow(d) THEN Throw(rethrown(d.err, GenericText(k), src))
    ELSE IF IsThrow(validateSpec(d))
    THEN Throw(rethrown(validateSpec(d).err, GenericText(k), src))
    ELSE IF IsThrow(extractSpecification(d))
    THEN Throw(rethrown(extractSpecification(d).err, GenericText(k), src))
    ELSE extractSpecification(d)

\* what the call of locals l settles with when it runs alone, given its
\* arguments and what its read or request settled with
ResultAlone(l) ==
    IF l.steps \in {<<"read">>, <<"fetch">>}
    THEN Throw(rethrown(l.thrown, GenericText(l.kind), l.source))
    ELSE SettledFrom(IF l.kind = "file"
                     THEN parseDocument(l.content, detectFormat(l.source))
                     ELSE l.document,
                     l.kind, l.source)

\* the locals of a call hold what its own steps computed from its own inputs
OwnLocals(l) ==
    /\ l.format # "none" => l.format = detectFormat(l.source)
    /\ l.kind = "file" /\ l.document # Absent
          => l.document = parseDocument(l.content, detectFormat(l.source))
    /\ l.pc \in {"returned", "rejected"} => l.outcome = ResultAlone(l)

\* C19: of two calls whose steps interleave in any order, each works on its
\* own inputs only and settles with the result or the error of the same call
\* run alone.
C19_CallsIndependent == OwnLocals(Locals) /\ OwnLocals(other)

\* two calls of importFromFile, for a YAML path and for another path, have
\* both read and parsed a YAML text; the first was rejected and the second
\* returned a specification
C19_Witness ==
    /\ Returned
    /\ kind = "file"
    /\ format = "yaml"
    /\ content.syntax = "yaml"
    /\ other.pc = "rejected"
    /\ other.kind = "file"
    /\ other.format = "json"
    /\ other.content = content

-----------------------------------------------------------------------------
(* C20 *)

-----------------------------------------------------------------------------
(* C21 *)

\* C21: the raw of a returned specification is the whole document that was
\* parsed or fetched and then validated, what the parser built from the text
\* as written, with every field and no other; the extraction changes nothing
\* of the document.
C21_RawIsTheDocument ==
    Returned =>
        /\ outcome.raw = document
        /\ written # Absent => outcome.raw = Materialize(written)
        /\ kind = "file" => outcome.raw = parseDocument(content, format)

\* a specification is returned for a document with components and a path
C21_Witness ==
    /\ Returned
    /\ outcome.components # Undef
    /\ Len(outcome.endpoints) > 0
    /\ HasProperty(outcome.raw, "components")
    /\ HasProperty(outcome.raw, "paths")

-----------------------------------------------------------------------------
(* C22 *)

WrittenInfo == Get(written, "info")

\* the document has one path, whose item has one key, a method's, with an
\* operation
OnePathOneOperation ==
    /\ Len(WrittenPathKeys) = 1
    /\ Get(WrittenPaths, WrittenPathKeys[1]).t = "object"
    /\ Len(Get(WrittenPaths, WrittenPathKeys[1]).keys) = 1
    /\ \E m \in Range(HTTPMethods) :
          Get(Get(WrittenPaths, WrittenPathKeys[1]), MethodKey(m)).t = "object"

\* C22: the info of a returned specification has the title and the version
\* of the document's info, and its description when it has one, none
\* otherwise; for a document of one path with one operation the endpoints
\* are one entry with the path and the method of the document.
C22_InfoAndSingleEndpoint ==
    Returned =>
        /\ outcome.info.title = WrittenField(WrittenInfo, "title")
        /\ outcome.info.version = WrittenField(WrittenInfo, "version")
        /\ outcome.info.description = WrittenField(WrittenInfo, "description")
        /\ ~HasProperty(WrittenInfo, "description")
              => outcome.info.description = Undef
        /\ OnePathOneOperation
              => /\ Len(outcome.endpoints) = 1
                 /\ outcome.endpoints[1].path = WrittenPathKeys[1]
                 /\ MethodKey(outcome.endpoints[1].method)
                       = Get(WrittenPaths, WrittenPathKeys[1]).keys[1]

\* a specification is returned for a document of one path with one operation
\* whose info has a description
C22_Witness ==
    /\ Returned
    /\ OnePathOneOperation
    /\ outcome.info.description = Str("About")
    /\ outcome.info.title = Str("Test API")
    /\ outcome.endpoints[1].method = "GET"

-----------------------------------------------------------------------------
(* C26 *)

\* C26: no two endpoints of a returned specification have the same path and
\* method, and the endpoints are at most seven times as many as the path
\* keys of the document, none when paths has no key.
C26_EndpointsUnique ==
    Returned =>
        /\ \A i, j \in DOMAIN outcome.endpoints :
              EndpointPairs[i] = EndpointPairs[j] => i = j
        /\ Len(outcome.endpoints) <= 7 * Len(WrittenPathKeys)
        /\ WrittenPathKeys = <<>> => outcome.endpoints = <<>>

\* a specification is returned with three endpoints for two paths
C26_Witness ==
    /\ Returned
    /\ Len(WrittenPathKeys) = 2
    /\ Len(outcome.endpoints) = 3

-----------------------------------------------------------------------------
(* C27 *)

WrittenPathItems == {Get(WrittenPaths, k) : k \in Range(WrittenPathKeys)}

IsScalar(v) == v.t \in {"string", "number", "boolean"}

\* the endpoints of a returned specification whose path is k
EndpointsOfPath(k) ==
    {i \in DOMAIN outcome.endpoints : outcome.endpoints[i].path = k}

\* C27: a document that passed the validator and has a null path item makes
\* the call fail with the generic import error that names the source, and no
\* specification is returned; a path item that is a string, a number or a
\* boolean fails nothing, it is passed over: among path items that are such
\* scalars or objects of well-formed operations the call returns, and the
\* specification has no endpoint for the scalar ones.
C27_NullPathItemFails ==
    "extract" \in Range(steps) =>
        /\ Null \in WrittenPathItems
              => /\ pc \in {"catch", "rejected"}
                 /\ thrown = TypeError
                 /\ Rejected
                       => outcome =
                            Throw(OpenAPIImportError(
                                      Message(GenericText(kind), source),
                                      TypeError))
        /\ WrittenPathItems \subseteq SmallPathItemTrees \ {Null}
              => /\ Returned
                 /\ \A k \in Range(WrittenPathKeys) :
                       IsScalar(Get(WrittenPaths, k)) => EndpointsOfPath(k) = {}

\* a call was rejected for a null path item that follows a path with an
\* operation
C27_Witness ==
    /\ Rejected
    /\ Len(WrittenPathKeys) = 2
    /\ Get(WrittenPaths, WrittenPathKeys[1]).t = "object"
    /\ Get(WrittenPaths, WrittenPathKeys[1]).keys # <<>>
    /\ Get(WrittenPaths, WrittenPathKeys[2]) = Null
    /\ outcome.err.message.arg = source

-----------------------------------------------------------------------------
(* C28 *)

\* C28: when the document handed to the validator is null or undefined, the
\* call fails with the generic import error whose message names the path or
\* the URL and whose cause is the TypeError of the validator; it does not
\* fail with a validation error that lists missing fields.
C28_NullDocument ==
    "validate" \in Range(steps) /\ Nullish(document) =>
        /\ pc \in {"catch", "rejected"}
        /\ LastStep = "validate"
        /\ thrown = TypeError
        /\ Rejected
              => /\ outcome =
                       Throw(OpenAPIImportError(
                                 Message(GenericText(kind), source), TypeError))
                 /\ ~InstanceOfValidationError(outcome.err)

\* a call of importFromFile was rejected for a YAML file whose document is
\* null
C28_Witness ==
    /\ Rejected
    /\ kind = "file"
    /\ format = "yaml"
    /\ document = Null
    /\ outcome.err.class = "OpenAPIImportError"

-----------------------------------------------------------------------------
(* C29 *)

-----------------------------------------------------------------------------
(* C24 *)

\* C24: the configuration createRequest returns has the timeout of the
\* caller whenever the caller gives one, and 30000 only when the caller gives
\* none.
C24_CallerTimeoutKept ==
    reqPc # "idle" =>
        /\ reqConfig.timeout # Undef => axiosConfig.timeout = reqConfig.timeout
        /\ reqConfig.timeout = Undef => axiosConfig.timeout = Num(30000)

-----------------------------------------------------------------------------
(* C25 *)

\* C25: a request built by createRequest and given to executeRequest reaches
\* the transport in one request, with the method, url, headers, params and
\* data of the caller; when the transport answers, executeRequest returns
\* the data, status, statusText and headers of the answer and nothing else.
C25_RequestAndResponse ==
    reqPc \in {"requesting", "returned", "rejected"} =>
        /\ Len(transport) = 1
        /\ transport[1].method = reqConfig.method
        /\ transport[1].url = reqConfig.url
        /\ transport[1].headers = reqConfig.headers
        /\ transport[1].params = reqConfig.params
        /\ transport[1].data = reqConfig.data
        /\ reqPc = "returned"
              => /\ settled.t = "response"
                 /\ reqOutcome = [data |-> settled.data,
                                  status |-> settled.status,
                                  statusText |-> settled.statusText,
                                  headers |-> settled.headers]
        /\ reqPc # "requesting" /\ settled.t = "response" => reqPc = "returned"

\* a POST with headers, params and data was answered with 200
C25_Witness ==
    /\ reqPc = "returned"
    /\ reqConfig.method = Str("POST")
    /\ reqConfig.headers # Undef
    /\ reqConfig.params # Undef
    /\ reqConfig.data # Undef
    /\ reqOutcome.status = Num(200)

-----------------------------------------------------------------------------
(* C30 *)

\* C30: when the request of the transport fails, executeRequest rejects with
\* the error of the transport as it is, no typed error of the importer
\* around it, returns no Response and sends no second request.
C30_TransportErrorUnchanged ==
    reqPc \in {"returned", "rejected"} /\ IsThrow(settled) =>
        /\ reqPc = "rejected"
        /\ reqOutcome = settled
        /\ ~InstanceOfOpenAPIImportError(reqOutcome.err)
        /\ Len(transport) = 1

\* executeRequest was rejected for a response of status 404
C30_Witness ==
    /\ reqPc = "rejected"
    /\ reqOutcome.err.class = "AxiosError"
    /\ reqOutcome.err.message.text = "Request failed with status code 404"
    /\ Len(transport) = 1

-----------------------------------------------------------------------------
(* C23 *)

\* C23: when the tool import_openapi is requested of the server, the server
\* calls importFromFile(source) if sourceType is "file" and
\* importFromUrl(source) otherwise, and what it answers is not the text of a
\* tool whose implementation is pending.
C23_ImportDispatched ==
    /\ toolRequest # Absent
    /\ toolRequest.name = "import_openapi"
    /\ toolRequest.arguments # Undef
    => /\ kind = IF Get(toolRequest.arguments, "sourceType") = Str("file")
                 THEN "file" ELSE "url"
       /\ Str(source) = Get(toolRequest.arguments, "source")
       /\ toolResponse.content[1].text.template # "implementation pending"


=============================================================================
